---- MODULE Spec2Model ----
(***************************************************************************)
(* State-machine model of the VIP CAR backend (src/src/server.js): the     *)
(* clients and washes collections of the document store, the HTTP handlers *)
(* that read and write them, and the clock the handlers read.  A handler   *)
(* that awaits several store operations is one action per store operation, *)
(* so that other requests may interleave between them; a handler with one  *)
(* store operation is one action.                                          *)
(***************************************************************************)
EXTENDS Integers, Sequences, FiniteSets, TLC

VARIABLES clients, washes, now, reg, lst, out, swept, calls

vars == <<clients, washes, now, reg, lst, out, swept, calls>>

(***************************************************************************)
(* Bounds of the model.                                                    *)
(***************************************************************************)
\* Requests served, Wash records stored, and ticks of the clock.
MaxCalls == 3
MaxWashes == 2
MaxTime == 1

\* Ticks per calendar day (the date filter's 00:00:00.000-23:59:59.999 window).
DayLen == 2

\* The validator's limit on carModel.length.
MaxCarModelLen == 30

RegProcs == {"r1", "r2"}
ListProcs == {"l1"}


\* A missing or empty string field of a request (falsy in JavaScript).
Absent == ""
\* No date query parameter.
NoDate == -1
\* No id in the body of POST /clients.
NoId == 0

Plates == {"ABC1234", "XYZ9876"}
Statuses == {"pending", "completed", "cancelled", "delivered"}
StatusParams == {Absent, "all", "pending", "cancelled"}

\* Query strings of GET /services.
ListQueries ==
  {[status |-> s, date |-> NoDate] : s \in StatusParams}
    \cup {[status |-> Absent, date |-> 1]}

LongModel == "Volkswagen Gol 1.0 Trendline MPI"

PriceFull == <<"R", "$", " ", "1", ".", "2", "3", "4", ",", "5", "6">>
PricePlain == <<"5", "0", ",", "0", "0">>

\* Request bodies of POST /services.
RegBodies ==
  { [name |-> "Ana", phone |-> "11", plate |-> "ABC1234", carModel |-> "Gol",
     washPrice |-> PriceFull, deliveryTime |-> 0, paymentMethod |-> "pix"],
    [name |-> "Bia", phone |-> "22", plate |-> "ABC1234", carModel |-> "Uno",
     washPrice |-> <<>>, deliveryTime |-> 2, paymentMethod |-> "card"],
    [name |-> "Ana", phone |-> "11", plate |-> "XYZ9876", carModel |-> "Gol",
     washPrice |-> PricePlain, deliveryTime |-> 1, paymentMethod |-> "pix"],
    [name |-> "Ana", phone |-> "11", plate |-> "ABC1234", carModel |-> LongModel,
     washPrice |-> <<>>, deliveryTime |-> 1, paymentMethod |-> "pix"] }

\* Request bodies of PUT /clients/:id and (with an id) of POST /clients.
ClientBodies ==
  { [name |-> "Bia", phone |-> "22", plate |-> "XYZ9876", carModel |-> "Uno"],
    [name |-> "Ana", phone |-> "11", plate |-> "ABC1234", carModel |-> "Gol"] }

NoBody ==
  [name |-> Absent, phone |-> Absent, plate |-> Absent, carModel |-> Absent,
   washPrice |-> <<>>, deliveryTime |-> 0, paymentMethod |-> Absent]

NoDoc == [idx |-> 0, id |-> 0, plate |-> Absent]


(***************************************************************************)
(* Pure helpers.                                                           *)
(***************************************************************************)
Min(S) == CHOOSE x \in S : \A y \in S : x <= y

Digits == {"0", "1", "2", "3", "4", "5", "6", "7", "8", "9"}

DigitVal(c) ==
  CASE c = "0" -> 0 [] c = "1" -> 1 [] c = "2" -> 2 [] c = "3" -> 3
    [] c = "4" -> 4 [] c = "5" -> 5 [] c = "6" -> 6 [] c = "7" -> 7
    [] c = "8" -> 8 [] c = "9" -> 9

\* String.prototype.replace(pat, rep) with a string pattern: the FIRST
\* occurrence only.
Replace(s, pat, rep) ==
  LET n == Len(pat)
      hits == {i \in 1..(Len(s) - n + 1) : SubSeq(s, i, i + n - 1) = pat}
  IN IF hits = {} THEN s
     ELSE LET i == Min(hits)
          IN SubSeq(s, 1, i - 1) \o rep \o SubSeq(s, i + n, Len(s))

\* Last index of the run of digits of s that starts at i (i - 1 when empty).
DigitRunEnd(s, i) ==
  LET stops == {k \in i..Len(s) : s[k] \notin Digits}
  IN IF stops = {} THEN Len(s) ELSE Min(stops) - 1

RECURSIVE DigitsValue(_)
DigitsValue(ds) ==
  IF ds = <<>> THEN 0
  ELSE 10 * DigitsValue(SubSeq(ds, 1, Len(ds) - 1)) + DigitVal(ds[Len(ds)])

\* A number as digits * 10^-scale, without trailing fractional zeros.
RECURSIVE Normalise(_)
Normalise(v) ==
  IF v.scale > 0 /\ v.digits % 10 = 0
  THEN Normalise([v EXCEPT !.digits = v.digits \div 10, !.scale = v.scale - 1])
  ELSE v

NaN == [nan |-> TRUE, neg |-> FALSE, digits |-> 0, scale |-> 0]

\* parseFloat: leading blanks, an optional sign, digits, an optional fraction;
\* whatever follows is ignored; NaN when there is no digit.
ParseFloat(s) ==
  LET nonBlank == {k \in 1..Len(s) : s[k] # " "}
      i0 == IF nonBlank = {} THEN Len(s) + 1 ELSE Min(nonBlank)
      signed == i0 <= Len(s) /\ s[i0] \in {"+", "-"}
      neg == signed /\ s[i0] = "-"
      i1 == IF signed THEN i0 + 1 ELSE i0
      e1 == DigitRunEnd(s, i1)
      dot == e1 + 1 <= Len(s) /\ s[e1 + 1] = "."
      e2 == IF dot THEN DigitRunEnd(s, e1 + 2) ELSE e1
      ints == SubSeq(s, i1, e1)
      fracs == IF dot THEN SubSeq(s, e1 + 2, e2) ELSE <<>>
  IN IF ints = <<>> /\ fracs = <<>> THEN NaN
     ELSE Normalise([nan |-> FALSE, neg |-> neg,
                     digits |-> DigitsValue(ints \o fracs),
                     scale |-> Len(fracs)])

\* price: parseFloat(washPrice ? washPrice.replace("R$", "").replace(".", "")
\*                               .replace(",", ".") : "0")
ParsePrice(washPrice) ==
  ParseFloat(IF washPrice # <<>>
             THEN Replace(Replace(Replace(washPrice, <<"R", "$">>, <<>>),
                                  <<".">>, <<>>), <<",">>, <<".">>)
             ELSE <<"0">>)

(***************************************************************************)
(* Store queries.                                                          *)
(***************************************************************************)
\* Mutant of HasPendingWash: the status literal misspelt, so nothing matches.
HasPendingWashWrongCase(plate) ==
  \E i \in 1..Len(washes) :
    washes[i].plate = plate /\ washes[i].status = "Pending"

\* Wash.findOne({ plate, status: "pending" }) finds a record.
HasPendingWash(plate) ==
  \E i \in 1..Len(washes) :
    washes[i].plate = plate /\ washes[i].status = "pending"

\* Client.findOne({ plate }): the store id of the first match, 0 for null.
FindClientByPlate(plate) ==
  LET hits == {i \in 1..Len(clients) : clients[i].plate = plate}
  IN IF hits = {} THEN 0 ELSE Min(hits)

\* Client.findOne... by custom id: the store id of the first match, 0 for null.
FindClientById(id) ==
  LET hits == {i \in 1..Len(clients) : clients[i].id = id}
  IN IF hits = {} THEN 0 ELSE Min(hits)

\* The unique index on clients.plate rejects a write that would give the
\* document with store id idx (0: a new document) a plate another one holds.
PlateTaken(plate, idx) ==
  \E j \in 1..Len(clients) : j # idx /\ clients[j].plate = plate

\* crypto.randomUUID(): a value no client and no document in flight carries.
UsedIds ==
  {clients[i].id : i \in 1..Len(clients)} \cup {reg[r].doc.id : r \in RegProcs}

FreshId == Min({n \in 1..(Cardinality(Plates) + Cardinality(RegProcs) + 1) : n \notin UsedIds})

\* Requests of POST /services that passed the duplicate check and have not
\* yet inserted their Wash.
InFlight == {r \in RegProcs : reg[r].pc # "idle"}

(***************************************************************************)
(* Initial state: empty collections, no request in progress.               *)
(***************************************************************************)
IdleReg == [pc |-> "idle", body |-> NoBody, doc |-> NoDoc, sawLen |-> 0]

\* The response the last step sent, if it sent one: the handler, the status
\* code and, for POST /services, the plate asked for, the store id of the
\* Wash created (0: none) and how many Wash records the store held when the
\* request ran its duplicate check; for GET /services, the query, the
\* sweep's cut-off, the washes that became pending after the sweep, and the
\* rows of the body.
NoOut == [op |-> "none", code |-> 0, plate |-> Absent, washId |-> 0, sawLen |-> 0,
          status |-> Absent, date |-> NoDate, sweepTime |-> 0, late |-> {},
          rows |-> <<>>]

Respond(code, r, washId) ==
  [NoOut EXCEPT !.op = "registerService", !.code = code,
                !.plate = reg[r].body.plate, !.washId = washId,
                !.sawLen = reg[r].sawLen]

Reply(op, code) == [NoOut EXCEPT !.op = op, !.code = code]

IdleList == [pc |-> "idle", status |-> Absent, date |-> NoDate, sweepTime |-> 0,
             late |-> {}]

Init ==
  /\ clients = <<>>
  /\ washes = <<>>
  /\ now = 0
  /\ reg = [r \in RegProcs |-> IdleReg]
  /\ lst = [l \in ListProcs |-> IdleList]
  /\ out = NoOut
  /\ calls = 0
  /\ swept = {}

\* The clock the handlers read through Date.now and new Date().
Tick ==
  /\ calls' = calls
  /\ now < MaxTime
  /\ now' = now + 1
  /\ out' = NoOut
  /\ UNCHANGED <<clients, washes, reg, lst, swept>>

(***************************************************************************)
(* POST /services                                                          *)
(***************************************************************************)
\* The washes a listing between its sweep and its query sees become pending
\* after the sweep (bookkeeping for the listing's result, no program state).
NoteLate(i) ==
  [l \in ListProcs |->
     IF lst[l].pc = "aggregate"
     THEN [lst[l] EXCEPT !.late = lst[l].late \cup {i}]
     ELSE lst[l]]

\* Mutant of RegCheck: the 409 is sent without returning from the handler.
RegCheckNoReturn(r, b) ==
  /\ calls < MaxCalls
  /\ calls' = calls + 1
  /\ reg[r].pc = "idle"
  /\ Len(washes) + Cardinality(InFlight) < MaxWashes
  /\ IF b.carModel # Absent /\ Len(b.carModel) > MaxCarModelLen
     THEN /\ out' = [Reply("registerService", 400) EXCEPT !.plate = b.plate]
          /\ reg' = reg
     ELSE /\ out' = IF HasPendingWash(b.plate)
                    THEN [Reply("registerService", 409) EXCEPT !.plate = b.plate]
                    ELSE NoOut
          /\ reg' = [reg EXCEPT ![r] =
               [IdleReg EXCEPT !.pc = "findClient", !.body = b,
                               !.sawLen = Len(washes)]]
  /\ UNCHANGED <<clients, washes, now, lst, swept>>

\* The validator and the duplicate-pending check.
RegCheck(r, b) ==
  /\ calls < MaxCalls
  /\ calls' = calls + 1
  /\ reg[r].pc = "idle"
  /\ Len(washes) + Cardinality(InFlight) < MaxWashes
  /\ IF b.carModel # Absent /\ Len(b.carModel) > MaxCarModelLen
     THEN /\ out' = [Reply("registerService", 400) EXCEPT !.plate = b.plate]
          /\ reg' = reg
     ELSE IF HasPendingWash(b.plate)
     THEN /\ out' = [Reply("registerService", 409) EXCEPT !.plate = b.plate]
          /\ reg' = reg
     ELSE /\ out' = NoOut
          /\ reg' = [reg EXCEPT ![r] =
               [IdleReg EXCEPT !.pc = "findClient", !.body = b,
                               !.sawLen = Len(washes)]]
  /\ UNCHANGED <<clients, washes, now, lst, swept>>

\* Client.findOne({ plate }), then the in-memory document: the one found, or
\* a new one with a fresh id.
RegFindClient(r) ==
  /\ calls' = calls
  /\ reg[r].pc = "findClient"
  /\ LET b == reg[r].body
         idx == FindClientByPlate(b.plate)
     IN reg' = [reg EXCEPT ![r].pc = "saveClient",
                           ![r].doc =
                             IF idx # 0
                             THEN [idx |-> idx, id |-> clients[idx].id,
                                   plate |-> clients[idx].plate]
                             ELSE [idx |-> 0, id |-> FreshId, plate |-> b.plate]]
  /\ out' = NoOut
  /\ UNCHANGED <<clients, washes, now, lst, swept>>

\* client.save(): an update of name, phone and carModel by store id for a
\* document that was found, an insert for a new one.
RegSaveClient(r) ==
  /\ calls' = calls
  /\ reg[r].pc = "saveClient"
  /\ LET b == reg[r].body
         d == reg[r].doc
     IN IF d.idx # 0
        THEN /\ clients' = [clients EXCEPT ![d.idx].name = b.name,
                                           ![d.idx].phone = b.phone,
                                           ![d.idx].carModel = b.carModel]
             /\ reg' = [reg EXCEPT ![r].pc = "saveWash"]
             /\ out' = NoOut
        ELSE IF PlateTaken(d.plate, 0)
        THEN /\ clients' = clients
             /\ reg' = [reg EXCEPT ![r] = IdleReg]
             /\ out' = Respond(500, r, 0)
        ELSE /\ out' = NoOut
             /\ clients' = Append(clients,
                  [id |-> d.id, name |-> b.name, phone |-> b.phone,
                   plate |-> d.plate, carModel |-> b.carModel])
             /\ reg' = [reg EXCEPT ![r].pc = "saveWash",
                                   ![r].doc.idx = Len(clients) + 1]
  /\ UNCHANGED <<washes, now, lst, swept>>

\* Mutant of RegSaveWash: the duplicate check is made again at the insert.
RegSaveWashRechecked(r) ==
  /\ calls' = calls
  /\ reg[r].pc = "saveWash"
  /\ LET b == reg[r].body
         d == reg[r].doc
         price == ParsePrice(b.washPrice)
     IN IF price.nan \/ HasPendingWash(d.plate)
        THEN /\ reg' = [reg EXCEPT ![r] = IdleReg]
             /\ out' = Respond(IF price.nan THEN 500 ELSE 409, r, 0)
             /\ UNCHANGED <<washes, lst>>
        ELSE /\ washes' = Append(washes,
                  [clientId |-> d.id, plate |-> d.plate, carModel |-> b.carModel,
                   price |-> price, entryTime |-> now,
                   deliveryTime |-> b.deliveryTime, status |-> "pending",
                   paymentMethod |-> b.paymentMethod])
             /\ reg' = [reg EXCEPT ![r] = IdleReg]
             /\ out' = Respond(201, r, Len(washes) + 1)
             /\ lst' = NoteLate(Len(washes) + 1)
  /\ UNCHANGED <<clients, now, swept>>

\* new Wash({...}) and newWash.save().
RegSaveWash(r) ==
  /\ calls' = calls
  /\ reg[r].pc = "saveWash"
  /\ LET b == reg[r].body
         d == reg[r].doc
         price == ParsePrice(b.washPrice)
     IN IF price.nan
        THEN /\ reg' = [reg EXCEPT ![r] = IdleReg]
             /\ out' = Respond(500, r, 0)
             /\ UNCHANGED <<washes, lst>>
        ELSE /\ washes' = Append(washes,
                  [clientId |-> d.id, plate |-> d.plate, carModel |-> b.carModel,
                   price |-> price, entryTime |-> now,
                   deliveryTime |-> b.deliveryTime, status |-> "pending",
                   paymentMethod |-> b.paymentMethod])
             /\ reg' = [reg EXCEPT ![r] = IdleReg]
             /\ out' = Respond(201, r, Len(washes) + 1)
             /\ lst' = NoteLate(Len(washes) + 1)
  /\ UNCHANGED <<clients, now, swept>>

(***************************************************************************)
(* GET /services                                                           *)
(***************************************************************************)
\* Mutant of Overdue: $lte in place of $lt.
OverdueInclusive(w, t) == w.status = "pending" /\ w.deliveryTime <= t

\* The filter of Wash.updateMany: status pending, deliveryTime $lt new Date().
Overdue(w, t) == w.status = "pending" /\ w.deliveryTime < t

\* Mutant of SweepAt: the filter of the sweep without its status condition.
SweepAtAnyStatus(t) ==
  [i \in 1..Len(washes) |->
     IF washes[i].deliveryTime < t
     THEN [washes[i] EXCEPT !.status = "completed"]
     ELSE washes[i]]

\* Wash.updateMany(..., { $set: { status: "completed" } }).
SweepAt(t) ==
  [i \in 1..Len(washes) |->
     IF Overdue(washes[i], t)
     THEN [washes[i] EXCEPT !.status = "completed"]
     ELSE washes[i]]

\* Mutant of BuildFilter: status = "all" drops the default restriction.
BuildFilterAllUnrestricted(status, date) ==
  [statusOp |-> IF status # Absent /\ status # "all" THEN "eq" ELSE "ne",
   statusVal |-> IF status # Absent /\ status # "all" THEN status
                 ELSE IF status = "all" THEN "<none>" ELSE "cancelled",
   hasDate |-> date # NoDate,
   gte |-> IF date # NoDate THEN date * DayLen ELSE 0,
   lte |-> IF date # NoDate THEN date * DayLen + (DayLen - 1) ELSE 0]

\* let filter = { status: { $ne: "cancelled" } }; overridden by a status
\* parameter that is truthy and not "all"; a date adds the day's window.
BuildFilter(status, date) ==
  [statusOp |-> IF status # Absent /\ status # "all" THEN "eq" ELSE "ne",
   statusVal |-> IF status # Absent /\ status # "all" THEN status ELSE "cancelled",
   hasDate |-> date # NoDate,
   gte |-> IF date # NoDate THEN date * DayLen ELSE 0,
   lte |-> IF date # NoDate THEN date * DayLen + (DayLen - 1) ELSE 0]

\* $match
Matches(w, f) ==
  /\ IF f.statusOp = "eq" THEN w.status = f.statusVal ELSE w.status # f.statusVal
  /\ f.hasDate => (f.gte <= w.deliveryTime /\ w.deliveryTime <= f.lte)

\* $lookup, $unwind and $project for the Wash with store id i: one row per
\* Client whose custom id equals the Wash's clientId, in store order.
RECURSIVE JoinFrom(_, _)
JoinFrom(i, j) ==
  IF j > Len(clients) THEN <<>>
  ELSE (IF clients[j].id = washes[i].clientId
        THEN << [wid |-> i, plate |-> washes[i].plate,
                 carModel |-> washes[i].carModel, price |-> washes[i].price,
                 entryTime |-> washes[i].entryTime,
                 deliveryTime |-> washes[i].deliveryTime,
                 status |-> washes[i].status,
                 paymentMethod |-> washes[i].paymentMethod,
                 clientName |-> clients[j].name,
                 clientPhone |-> clients[j].phone] >>
        ELSE <<>>) \o JoinFrom(i, j + 1)

RECURSIVE Pipeline(_, _)
Pipeline(f, i) ==
  IF i > Len(washes) THEN <<>>
  ELSE (IF Matches(washes[i], f) THEN JoinFrom(i, 1) ELSE <<>>) \o Pipeline(f, i + 1)

\* $sort: { deliveryTime: 1 }; rows of equal deliveryTime keep pipeline order.
RECURSIVE SortByDelivery(_)
SortByDelivery(rows) ==
  IF rows = <<>> THEN <<>>
  ELSE LET m == Min({rows[k].deliveryTime : k \in 1..Len(rows)})
           k0 == Min({k \in 1..Len(rows) : rows[k].deliveryTime = m})
       IN <<rows[k0]>> \o
          SortByDelivery(SubSeq(rows, 1, k0 - 1) \o SubSeq(rows, k0 + 1, Len(rows)))

Aggregate(status, date) == SortByDelivery(Pipeline(BuildFilter(status, date), 1))

\* Mutant of ListSweep: no sweep when the query names a status.
ListSweepDefaultOnly(l, status, date) ==
  /\ calls < MaxCalls
  /\ calls' = calls + 1
  /\ lst[l].pc = "idle"
  /\ washes' = IF status = Absent THEN SweepAt(now) ELSE washes
  /\ swept' = IF status = Absent
              THEN swept \cup {i \in 1..Len(washes) : Overdue(washes[i], now)}
              ELSE swept
  /\ lst' = [lst EXCEPT ![l] =
       [IdleList EXCEPT !.pc = "aggregate", !.status = status, !.date = date,
                        !.sweepTime = now]]
  /\ out' = NoOut
  /\ UNCHANGED <<clients, now, reg>>

\* The sweep, with the cut-off read from the clock.
ListSweep(l, status, date) ==
  /\ calls < MaxCalls
  /\ calls' = calls + 1
  /\ lst[l].pc = "idle"
  /\ washes' = SweepAt(now)
  /\ swept' = swept \cup {i \in 1..Len(washes) : Overdue(washes[i], now)}
  /\ lst' = [lst EXCEPT ![l] =
       [IdleList EXCEPT !.pc = "aggregate", !.status = status, !.date = date,
                        !.sweepTime = now]]
  /\ out' = NoOut
  /\ UNCHANGED <<clients, now, reg>>

\* Wash.aggregate([...]) and the response.
ListAggregate(l) ==
  /\ calls' = calls
  /\ lst[l].pc = "aggregate"
  /\ lst' = [lst EXCEPT ![l] = IdleList]
  /\ out' = [Reply("listQueue", 200) EXCEPT
               !.status = lst[l].status, !.date = lst[l].date,
               !.sweepTime = lst[l].sweepTime, !.late = lst[l].late,
               !.rows = Aggregate(lst[l].status, lst[l].date)]
  /\ UNCHANGED <<clients, washes, now, reg, swept>>

(***************************************************************************)
(* PATCH /services/:id/status                                              *)
(***************************************************************************)
\* Wash.findByIdAndUpdate(id, { status }, { new: true }); null for no match.
UpdateStatus(id, status) ==
  /\ calls < MaxCalls
  /\ calls' = calls + 1
  /\ IF id <= Len(washes)
     THEN /\ washes' = [washes EXCEPT ![id].status = status]
          /\ swept' = IF status = "pending" THEN swept \ {id} ELSE swept
          /\ lst' = IF status = "pending" THEN NoteLate(id) ELSE lst
     ELSE UNCHANGED <<washes, swept, lst>>
  /\ out' = Reply("updateStatus", 200)
  /\ UNCHANGED <<clients, now, reg>>

(***************************************************************************)
(* POST /clients                                                           *)
(***************************************************************************)
\* new Client(clientData).save(), with a generated id when the body has none.
CreateClient(b, id) ==
  /\ calls < MaxCalls
  /\ calls' = calls + 1
  /\ IF PlateTaken(b.plate, 0)
     THEN /\ clients' = clients
          /\ out' = Reply("create", 500)
     ELSE /\ clients' = Append(clients,
               [id |-> IF id = NoId THEN FreshId ELSE id, name |-> b.name,
                phone |-> b.phone, plate |-> b.plate, carModel |-> b.carModel])
          /\ out' = Reply("create", 201)
  /\ UNCHANGED <<washes, now, reg, lst, swept>>

(***************************************************************************)
(* PUT /clients/:id                                                        *)
(***************************************************************************)
\* Mutant of UpdateClient: the update written without the unique index on plate.
UpdateClientNoUniqueIndex(id, b) ==
  /\ calls < MaxCalls
  /\ calls' = calls + 1
  /\ LET idx == FindClientById(id)
     IN IF idx = 0
        THEN /\ clients' = clients
             /\ out' = Reply("updateById", 404)
        ELSE /\ clients' = [clients EXCEPT ![idx].name = b.name,
                                           ![idx].phone = b.phone,
                                           ![idx].plate = b.plate,
                                           ![idx].carModel = b.carModel]
             /\ out' = Reply("updateById", 200)
  /\ UNCHANGED <<washes, now, reg, lst, swept>>

\* Client.findOneAndUpdate({ id }, { name, phone, plate, carModel }).
UpdateClient(id, b) ==
  /\ calls < MaxCalls
  /\ calls' = calls + 1
  /\ LET idx == FindClientById(id)
     IN IF idx = 0
        THEN /\ clients' = clients
             /\ out' = Reply("updateById", 404)
        ELSE IF PlateTaken(b.plate, idx)
        THEN /\ clients' = clients
             /\ out' = Reply("updateById", 500)
        ELSE /\ clients' = [clients EXCEPT ![idx].name = b.name,
                                           ![idx].phone = b.phone,
                                           ![idx].plate = b.plate,
                                           ![idx].carModel = b.carModel]
             /\ out' = Reply("updateById", 200)
  /\ UNCHANGED <<washes, now, reg, lst, swept>>

(***************************************************************************)
(* Specifications.                                                         *)
(***************************************************************************)
\* Custom ids a caller can name: those of the clients, and one of no client.
KnownIds == {clients[i].id : i \in 1..Len(clients)}

UnknownId == Cardinality(Plates) + Cardinality(RegProcs) + 2

RegBegin == \E r \in RegProcs, b \in RegBodies : RegCheck(r, b)

RegStep == \E r \in RegProcs : RegFindClient(r) \/ RegSaveClient(r) \/ RegSaveWash(r)

ListBegin == \E l \in ListProcs, q \in ListQueries : ListSweep(l, q.status, q.date)

ListStep == \E l \in ListProcs : ListAggregate(l)

Patch == \E id \in 1..MaxWashes, s \in Statuses : UpdateStatus(id, s)

Create == \E b \in ClientBodies, id \in KnownIds \cup {NoId} : CreateClient(b, id)

Put == \E id \in KnownIds \cup {UnknownId}, b \in ClientBodies : UpdateClient(id, b)

Next ==
  \/ Tick
  \/ RegBegin
  \/ RegStep
  \/ ListBegin
  \/ ListStep
  \/ Patch
  \/ Create
  \/ Put

\* Every request may overlap every other.
Spec == Init /\ [][Next]_vars

\* No request is between two of its store operations.
Quiet == InFlight = {} /\ \A l \in ListProcs : lst[l].pc = "idle"

SeqRegBegin == Quiet /\ RegBegin

SeqListBegin == Quiet /\ ListBegin

SeqPut == Quiet /\ Put

SeqNext ==
  \/ Tick
  \/ SeqRegBegin
  \/ RegStep
  \/ SeqListBegin
  \/ ListStep
  \/ SeqPut

\* Calls of registerService, listQueue and updateById that do not overlap.
SeqSpec == Init /\ [][SeqNext]_vars

(***************************************************************************)
(* Properties.                                                             *)
(***************************************************************************)
WashIds == 1..Len(washes)

ClientIdxs == 1..Len(clients)

PendingFor(plate) == {i \in WashIds : washes[i].plate = plate /\ washes[i].status = "pending"}

\* The Wash with store id i references some Client by custom id.
HasClient(i) == \E j \in ClientIdxs : clients[j].id = washes[i].clientId

RowsOf(i) == {k \in 1..Len(out.rows) : out.rows[k].wid = i}

Listed == {out.rows[k].wid : k \in 1..Len(out.rows)}

\* C1: in every reachable state, for every plate there is at most one Wash
\* with that plate and status pending.
C1_OnePendingPerPlate ==
  \A p \in Plates : Cardinality(PendingFor(p)) <= 1

\* C2: a registerService call for a plate that has a pending Wash (carModel of
\* at most 30 characters) answers 409 and leaves every Client and Wash, and
\* every other request, as they were.
C2_DuplicatePendingConflict ==
  [][\A r \in RegProcs, b \in RegBodies :
       (RegCheck(r, b) /\ Len(b.carModel) <= 30 /\ PendingFor(b.plate) # {})
         => /\ out'.op = "registerService"
            /\ out'.code = 409
            /\ out'.washId = 0
            /\ clients' = clients
            /\ washes' = washes
            /\ reg' = reg]_vars

C2_Witness ==
  /\ out.op = "registerService"
  /\ out.code = 409
  /\ PendingFor(out.plate) # {}

\* C3: the Wash insert of registerService is a store operation of its own that
\* does not look at the washes again: a request that passed the duplicate
\* check inserts a pending Wash for its plate and answers 201 whatever was
\* inserted since the check, so two requests that both passed the check for
\* one plate leave two pending washes for it.
C3_InsertWithoutRecheck ==
  [][\A r \in RegProcs :
       (reg[r].pc = "saveWash" /\ reg'[r] # reg[r]
          /\ ~ParsePrice(reg[r].body.washPrice).nan)
         => /\ out'.op = "registerService"
            /\ out'.code = 201
            /\ Len(washes') = Len(washes) + 1
            /\ washes'[Len(washes')].status = "pending"
            /\ washes'[Len(washes')].plate = reg[r].body.plate
            /\ PendingFor(reg[r].body.plate) \subseteq
                 {i \in 1..Len(washes') : washes'[i].status = "pending"}]_vars

\* Two requests for one plate both ran the duplicate check before either
\* inserted (the second to insert saw an empty collection), both inserted,
\* and the plate has two pending washes.
C3_Witness ==
  /\ out.op = "registerService"
  /\ out.code = 201
  /\ out.washId = 2
  /\ out.sawLen = 0
  /\ washes[1].plate = out.plate
  /\ washes[2].plate = out.plate
  /\ washes[1].status = "pending"
  /\ washes[2].status = "pending"

\* What one step of registerService request r writes.
C4_UpsertStep(r) ==
  LET b == reg[r].body
      d == reg[r].doc
  IN /\ (reg[r].pc = "saveClient" /\ reg'[r].pc = "saveWash" /\ d.idx = 0)
          => /\ Len(clients') = Len(clients) + 1
             /\ SubSeq(clients', 1, Len(clients)) = clients
             /\ clients'[Len(clients')] =
                  [id |-> d.id, name |-> b.name, phone |-> b.phone,
                   plate |-> b.plate, carModel |-> b.carModel]
             /\ washes' = washes
     /\ (reg[r].pc = "saveClient" /\ reg'[r].pc = "saveWash" /\ d.idx # 0)
          => /\ Len(clients') = Len(clients)
             /\ clients'[d.idx] =
                  [id |-> clients[d.idx].id, name |-> b.name, phone |-> b.phone,
                   plate |-> clients[d.idx].plate, carModel |-> b.carModel]
             /\ \A j \in ClientIdxs : j # d.idx => clients'[j] = clients[j]
             /\ washes' = washes
     /\ (reg[r].pc = "saveWash" /\ reg'[r] # reg[r] /\ out'.code = 201)
          => /\ Len(washes') = Len(washes) + 1
             /\ SubSeq(washes', 1, Len(washes)) = washes
             /\ washes'[Len(washes')].clientId = d.id
             /\ clients' = clients
     /\ ((reg[r].pc \in {"idle", "findClient"} /\ reg'[r] # reg[r])
           \/ (out'.op = "registerService" /\ out'.code # 201))
          => clients' = clients /\ washes' = washes

\* C4: no two Clients share a plate; the client upsert of registerService
\* adds exactly one Client when its lookup by plate found none, and otherwise
\* adds none, keeps the found Client's id and plate and overwrites its name,
\* phone and carModel with the request's; the insert adds exactly one Wash;
\* the other steps of registerService write nothing.
C4_UniquePlateAndUpsert ==
  [][/\ \A i, j \in 1..Len(clients') :
          clients'[i].plate = clients'[j].plate => i = j
     /\ \A r \in RegProcs : C4_UpsertStep(r)]_vars

\* A second registration for the plate of an existing Client succeeded: one
\* Client, two washes, the Client carrying the request's name.
C4_Witness ==
  /\ out.op = "registerService"
  /\ out.code = 201
  /\ Len(clients) = 1
  /\ Len(washes) = 2
  /\ clients[1].plate = out.plate
  /\ washes[1].carModel # washes[2].carModel
  /\ clients[1].carModel = washes[2].carModel

\* C5: without a date filter the result of listQueue holds exactly the joined
\* washes that are not cancelled (no status filter), that have status s (a
\* status filter s other than "all"), or all of them (status = "all").
C5_StatusFilter ==
  (out.op = "listQueue" /\ out.date = NoDate)
    => /\ Listed =
            {i \in WashIds :
               /\ HasClient(i)
               /\ CASE out.status = Absent -> washes[i].status # "cancelled"
                    [] out.status = "all" -> TRUE
                    [] OTHER -> washes[i].status = out.status}
       /\ \A k \in 1..Len(out.rows) :
            out.rows[k].status = washes[out.rows[k].wid].status

\* C5, amended: without a date filter the result of listQueue holds exactly
\* the joined washes that are not cancelled when there is no status filter
\* or the status filter is "all", and exactly those of status s for any other
\* status filter s.
C5_StatusFilterAllIsDefault ==
  (out.op = "listQueue" /\ out.date = NoDate)
    => /\ Listed =
            {i \in WashIds :
               /\ HasClient(i)
               /\ CASE out.status = Absent -> washes[i].status # "cancelled"
                    [] out.status = "all" -> washes[i].status # "cancelled"
                    [] OTHER -> washes[i].status = out.status}
       /\ \A k \in 1..Len(out.rows) :
            out.rows[k].status = washes[out.rows[k].wid].status

\* A listing with status = "all" that leaves out a cancelled wash of a Client.
C5_Witness ==
  /\ out.op = "listQueue"
  /\ out.date = NoDate
  /\ out.status = "all"
  /\ \E i \in WashIds :
       washes[i].status = "cancelled" /\ HasClient(i) /\ i \notin Listed

\* C6: the sweep of every listQueue call completes exactly the pending washes
\* whose deliveryTime is before the clock and changes no other wash; a wash
\* the sweep completed is in no later result of listQueue(status = pending)
\* unless updateStatus has set it back to pending.
C6_Sweep ==
  [][/\ \A l \in ListProcs :
          (lst[l].pc = "idle" /\ lst'[l].pc = "aggregate")
            => /\ Len(washes') = Len(washes)
               /\ \A i \in WashIds :
                    washes'[i] =
                      IF washes[i].status = "pending" /\ washes[i].deliveryTime < now
                      THEN [washes[i] EXCEPT !.status = "completed"]
                      ELSE washes[i]
               /\ \A i \in WashIds :
                    (washes[i].status = "pending" /\ washes[i].deliveryTime < now)
                      => i \in swept'
     /\ (out'.op = "listQueue" /\ out'.status = "pending")
          => \A k \in 1..Len(out'.rows) : out'.rows[k].wid \notin swept']_vars

\* A listing of the pending washes that leaves out a wash an earlier sweep
\* completed, while it shows another one.
C6_Witness ==
  /\ out.op = "listQueue"
  /\ out.status = "pending"
  /\ \E i \in swept : washes[i].status = "completed" /\ HasClient(i)
  /\ out.rows # <<>>

\* C7: the result of listQueue holds exactly one row for each Wash that passes
\* the filter and references a Client, with that Client's name and phone, and
\* no row for a Wash that references none.
C7_OneRowPerWash ==
  out.op = "listQueue"
    => \A i \in WashIds :
         IF HasClient(i) /\ Matches(washes[i], BuildFilter(out.status, out.date))
         THEN /\ Cardinality(RowsOf(i)) = 1
              /\ \A k \in RowsOf(i) :
                   \E j \in ClientIdxs :
                     /\ clients[j].id = washes[i].clientId
                     /\ out.rows[k].clientName = clients[j].name
                     /\ out.rows[k].clientPhone = clients[j].phone
         ELSE RowsOf(i) = {}

\* C8: no step removes a Client or a Wash or changes a field of a Wash other
\* than status, and status changes only in updateStatus or, from pending to
\* completed, in the sweep of listQueue.
C8_Frame ==
  [][/\ Len(clients') >= Len(clients)
     /\ Len(washes') >= Len(washes)
     /\ \A i \in WashIds :
          /\ [washes'[i] EXCEPT !.status = washes[i].status] = washes[i]
          /\ washes'[i].status # washes[i].status
               => \/ out'.op = "updateStatus"
                  \/ /\ \E l \in ListProcs :
                          lst[l].pc = "idle" /\ lst'[l].pc = "aggregate"
                     /\ washes[i].status = "pending"
                     /\ washes'[i].status = "completed"]_vars

\* Both ways of changing a status have acted: one wash was completed by the
\* sweep, another has a status only updateStatus writes.
C8_Witness ==
  /\ swept # {}
  /\ \E i \in WashIds : washes[i].status \in {"cancelled", "delivered"}

\* C9: listQueue(status = pending) never returns a Wash whose deliveryTime is
\* before the time of the call's own sweep.
C9_NoOverdueInPending ==
  (out.op = "listQueue" /\ out.status = "pending")
    => \A k \in 1..Len(out.rows) : out.rows[k].deliveryTime >= out.sweepTime

\* C9, amended: a Wash that listQueue(status = pending) returns with a
\* deliveryTime before the time of the call's sweep was inserted, or set to
\* pending by updateStatus, after that sweep.
C9_OverdueOnlyIfLate ==
  (out.op = "listQueue" /\ out.status = "pending")
    => \A k \in 1..Len(out.rows) :
         out.rows[k].deliveryTime < out.sweepTime => out.rows[k].wid \in out.late

C9_Witness ==
  /\ out.op = "listQueue"
  /\ out.status = "pending"
  /\ \E k \in 1..Len(out.rows) :
       out.rows[k].deliveryTime < out.sweepTime /\ out.rows[k].wid \in out.late

\* C10: each Client has at most one pending Wash that references its
\* custom id.
C10_OnePendingPerClient ==
  \A i, j \in WashIds :
    (washes[i].status = "pending" /\ washes[j].status = "pending"
       /\ washes[i].clientId = washes[j].clientId) => i = j

\* C10, amended: two pending washes that reference one Client carry different
\* plates.
C10_OnePendingPerClientAndPlate ==
  \A i, j \in WashIds :
    (washes[i].status = "pending" /\ washes[j].status = "pending"
       /\ washes[i].clientId = washes[j].clientId
       /\ washes[i].plate = washes[j].plate) => i = j

C10_Witness ==
  \E i, j \in WashIds :
    /\ i # j
    /\ washes[i].status = "pending"
    /\ washes[j].status = "pending"
    /\ washes[i].clientId = washes[j].clientId
    /\ \E c \in ClientIdxs : clients[c].id = washes[i].clientId

====
